---------------------------- MODULE Spec2Model ----------------------------
(***************************************************************************)
(* The installer script of eslint-config-upleveled as a state machine.     *)
(* One run of the script is the sequence                                   *)
(*   read package.json -> compute devDependencies -> build resolutions ->  *)
(*   write package.json -> run the package manager -> copy the templates   *)
(*   -> update .gitignore -> prune the default .eslintrc.json              *)
(* and the script may be started again on the project it left behind.      *)
(*                                                                         *)
(* Representation of JavaScript values:                                    *)
(*   - a string is a TLA+ string; CodeUnits gives its UTF-16 code units,   *)
(*     which is what the default Array.prototype.sort compares;            *)
(*   - an object is Object(entries), entries a sequence of <<key, value>>  *)
(*     pairs in property order with unique keys (no key of the model is an *)
(*     array index, so property order is insertion order);                 *)
(*   - a property that is not there is Undefined; a property value that is *)
(*     `undefined` is UndefinedValue;                                      *)
(*   - file text that is split or trimmed is a sequence of chunks: the     *)
(*     chunk "\n" is the newline, " " a blank, every other chunk a piece   *)
(*     of text that holds neither.                                         *)
(***************************************************************************)
EXTENDS Integers, Sequences, FiniteSets, TLC

\* ------------------------------------------------------------------ bounds

\* How many times the script is started on the same project.
MaxRuns == 2
\* Longest devDependencies object of the starting package.json.
MaxDevLen == 2
\* Longest starting .gitignore, in chunks.
MaxIgnoreLen == 5
\* Most whitespace chunks put before and after the .eslintrc.json text.
MaxPad == 1

\* ------------------------------------------------------------- JS strings

\* UTF-16 code units of the strings the model uses.
CodeUnits ==
    "next" :> <<110, 101, 120, 116>> @@
    "postgres" :> <<112, 111, 115, 116, 103, 114, 101, 115>> @@
    "react-scripts" :> <<114, 101, 97, 99, 116, 45, 115, 99, 114, 105, 112, 116, 115>> @@
    "@ts-safeql/eslint-plugin" :> <<64, 116, 115, 45, 115, 97, 102, 101, 113, 108, 47, 101, 115, 108, 105, 110, 116, 45, 112, 108, 117, 103, 105, 110>> @@
    "libpg-query" :> <<108, 105, 98, 112, 103, 45, 113, 117, 101, 114, 121>> @@
    "postcss-styled-syntax" :> <<112, 111, 115, 116, 99, 115, 115, 45, 115, 116, 121, 108, 101, 100, 45, 115, 121, 110, 116, 97, 120>> @@
    "stylelint" :> <<115, 116, 121, 108, 101, 108, 105, 110, 116>> @@
    "stylelint-config-css-modules" :> <<115, 116, 121, 108, 101, 108, 105, 110, 116, 45, 99, 111, 110, 102, 105, 103, 45, 99, 115, 115, 45, 109, 111, 100, 117, 108, 101, 115>> @@
    "stylelint-config-recommended" :> <<115, 116, 121, 108, 101, 108, 105, 110, 116, 45, 99, 111, 110, 102, 105, 103, 45, 114, 101, 99, 111, 109, 109, 101, 110, 100, 101, 100>> @@
    "stylelint-config-recommended-scss" :> <<115, 116, 121, 108, 101, 108, 105, 110, 116, 45, 99, 111, 110, 102, 105, 103, 45, 114, 101, 99, 111, 109, 109, 101, 110, 100, 101, 100, 45, 115, 99, 115, 115>> @@
    "@typescript-eslint/eslint-plugin" :> <<64, 116, 121, 112, 101, 115, 99, 114, 105, 112, 116, 45, 101, 115, 108, 105, 110, 116, 47, 101, 115, 108, 105, 110, 116, 45, 112, 108, 117, 103, 105, 110>> @@
    "@typescript-eslint/parser" :> <<64, 116, 121, 112, 101, 115, 99, 114, 105, 112, 116, 45, 101, 115, 108, 105, 110, 116, 47, 112, 97, 114, 115, 101, 114>> @@
    "@typescript-eslint/utils" :> <<64, 116, 121, 112, 101, 115, 99, 114, 105, 112, 116, 45, 101, 115, 108, 105, 110, 116, 47, 117, 116, 105, 108, 115>> @@
    "eslint-plugin-import" :> <<101, 115, 108, 105, 110, 116, 45, 112, 108, 117, 103, 105, 110, 45, 105, 109, 112, 111, 114, 116>> @@
    "eslint-plugin-jest" :> <<101, 115, 108, 105, 110, 116, 45, 112, 108, 117, 103, 105, 110, 45, 106, 101, 115, 116>> @@
    "eslint-plugin-jsx-a11y" :> <<101, 115, 108, 105, 110, 116, 45, 112, 108, 117, 103, 105, 110, 45, 106, 115, 120, 45, 97, 49, 49, 121>> @@
    "eslint-plugin-react" :> <<101, 115, 108, 105, 110, 116, 45, 112, 108, 117, 103, 105, 110, 45, 114, 101, 97, 99, 116>> @@
    "eslint-plugin-react-hooks" :> <<101, 115, 108, 105, 110, 116, 45, 112, 108, 117, 103, 105, 110, 45, 114, 101, 97, 99, 116, 45, 104, 111, 111, 107, 115>> @@
    "eslint" :> <<101, 115, 108, 105, 110, 116>> @@
    "crazy" :> <<99, 114, 97, 122, 121>> @@
    "crazy!" :> <<99, 114, 97, 122, 121, 33>> @@
    "lodash" :> <<108, 111, 100, 97, 115, 104>> @@
    "latest" :> <<108, 97, 116, 101, 115, 116>> @@
    "1.0.0" :> <<49, 46, 48, 46, 48>> @@
    "^2.0.0" :> <<94, 50, 46, 48, 46, 48>> @@
    "^13.0.0" :> <<94, 49, 51, 46, 48, 46, 48>> @@
    "4.17.21" :> <<52, 46, 49, 55, 46, 50, 49>>

\* -1, 0 or 1 as the code unit sequence a is before, equal to or after b
\* (the < of two JavaScript strings).
CompareCodeUnits(a, b) ==
    LET n == IF Len(a) < Len(b) THEN Len(a) ELSE Len(b)
        diffs == {i \in 1..n : a[i] # b[i]}
    IN  IF diffs = {}
        THEN IF Len(a) < Len(b) THEN -1 ELSE IF Len(a) > Len(b) THEN 1 ELSE 0
        ELSE LET i == CHOOSE j \in diffs : \A k \in diffs : j <= k
             IN  IF a[i] < b[i] THEN -1 ELSE 1

\* ToString of the two-element array [key, value]: "key,value".
EntryToString(e) == CodeUnits[e[1]] \o <<44>> \o CodeUnits[e[2]]

\* Array.prototype.sort() called without a comparator: the elements are
\* compared by their ToString, code unit by code unit.
SortCompare(x, y) == CompareCodeUnits(EntryToString(x), EntryToString(y))

\* Insert e into the sorted sequence s after every element not greater
\* than it (the sort is stable).
RECURSIVE InsertSorted(_, _)
InsertSorted(s, e) ==
    IF s = <<>> THEN <<e>>
    ELSE IF SortCompare(e, Head(s)) < 0 THEN <<e>> \o s
    ELSE <<Head(s)>> \o InsertSorted(Tail(s), e)

\* Array.prototype.sort(): a stable sort under SortCompare.
RECURSIVE SortEntries(_)
SortEntries(s) ==
    IF s = <<>> THEN <<>>
    ELSE InsertSorted(SortEntries(SubSeq(s, 1, Len(s) - 1)), s[Len(s)])

\* ------------------------------------------------------------- JS objects

Undefined == [type |-> "undefined"]
UndefinedValue == "undefined"
Object(entries) == [type |-> "object", entries |-> entries]

\* The entries a spread `...x` contributes: none for undefined.
Entries(x) == IF x = Undefined THEN <<>> ELSE x.entries

\* The property names of an object.
KeySet(entries) == {entries[i][1] : i \in 1..Len(entries)}

\* `key in object`.
HasKey(entries, key) == key \in KeySet(entries)

\* object[key]: undefined for a key that is not there.
Get(entries, key) ==
    IF HasKey(entries, key)
    THEN LET i == CHOOSE j \in 1..Len(entries) : entries[j][1] = key
         IN  entries[i][2]
    ELSE UndefinedValue

\* object[key] = value: an existing property keeps its place and takes the
\* value, a new one goes last.
Set(entries, key, value) ==
    IF HasKey(entries, key)
    THEN [i \in 1..Len(entries) |->
            IF entries[i][1] = key THEN <<key, value>> ELSE entries[i]]
    ELSE Append(entries, <<key, value>>)

\* { ...a, ...b }: b's properties assigned over a's, in b's order.
RECURSIVE Spread(_, _)
Spread(a, b) ==
    IF b = <<>> THEN a
    ELSE Spread(Set(a, Head(b)[1], Head(b)[2]), Tail(b))

\* Object.fromEntries: the entries assigned in order to an empty object.
ObjectFromEntries(entries) == Spread(<<>>, entries)

\* JSON.stringify of an object, read back by JSON.parse: the properties
\* whose value is undefined are gone, the others keep their order.
RECURSIVE StringifyEntries(_)
StringifyEntries(entries) ==
    IF entries = <<>> THEN <<>>
    ELSE IF Head(entries)[2] = UndefinedValue THEN StringifyEntries(Tail(entries))
    ELSE <<Head(entries)>> \o StringifyEntries(Tail(entries))

StringifyObject(x) == IF x = Undefined THEN Undefined ELSE Object(StringifyEntries(x.entries))

\* JSON.stringify(projectPackageJson, null, 2) + '\n' as the document it
\* denotes.
JSONStringify(manifest) ==
    [dependencies |-> StringifyObject(manifest.dependencies),
     devDependencies |-> StringifyObject(manifest.devDependencies),
     resolutions |-> StringifyObject(manifest.resolutions)]

\* ------------------------------------------------------------ file system

Absent == [exists |-> FALSE]
File(content) == [exists |-> TRUE, content |-> content]

\* existsSync(path) on a file of the model.
ExistsSync(file) == file.exists

\* The text of a package.json that JSON.parse accepts, and one it rejects.
JSONText(manifest) == [parses |-> TRUE, json |-> manifest]
Unparsable == [parses |-> FALSE]

\* readdirSync(templatePath): the names in the bundled templates directory,
\* the one the loop names among them.
TemplateDir == <<".eslintrc.cjs", "prettier.config.cjs", "stylelint.config.cjs">>
TemplateNames == {TemplateDir[k] : k \in 1..Len(TemplateDir)}

\* readFileSync(templateFilePath, 'utf-8'): the text of each template.
TemplateText ==
    ".eslintrc.cjs" :> "template .eslintrc.cjs" @@
    "prettier.config.cjs" :> "template prettier.config.cjs" @@
    "stylelint.config.cjs" :> "template stylelint.config.cjs"

\* ---------------------------------------------------------------- chunks

IsNewline(c) == c = "\n"

\* The characters String.prototype.trim removes.
IsWhiteSpace(c) == c \in {" ", "\n", "\t", "\r"}

\* text.split('\n'): the lines, each a sequence of chunks; the empty text
\* gives one empty line.
RECURSIVE Split(_)
Split(text) ==
    IF text = <<>> THEN << <<>> >>
    ELSE LET front == Split(SubSeq(text, 1, Len(text) - 1))
             c == text[Len(text)]
         IN  IF IsNewline(c) THEN Append(front, <<>>)
             ELSE [front EXCEPT ![Len(front)] = Append(@, c)]

\* lines.join('\n').
RECURSIVE Join(_)
Join(lines) ==
    IF lines = <<>> THEN <<>>
    ELSE IF Len(lines) = 1 THEN lines[1]
    ELSE lines[1] \o <<"\n">> \o Join(Tail(lines))

\* text.trim().
RECURSIVE TrimStart(_)
TrimStart(text) ==
    IF text # <<>> /\ IsWhiteSpace(Head(text)) THEN TrimStart(Tail(text)) ELSE text

RECURSIVE TrimEnd(_)
TrimEnd(text) ==
    IF text # <<>> /\ IsWhiteSpace(text[Len(text)])
    THEN TrimEnd(SubSeq(text, 1, Len(text) - 1))
    ELSE text

\* A comparison that forgets to trim.
TrimNothing(text) == text

Trim(text) == TrimEnd(TrimStart(text))

\* ------------------------------------------------------------ the script

VARIABLES
    fs,                          \* the project root: package, files, gitignore, eslintrc
    env,                         \* platform, pnpm-lock.yaml, the config's peerDependencies
    pc,                          \* the statement the running script is at
    projectPackageJson,          \* the parsed manifest, mutated in place
    newDevDependenciesToInstall, \* the requirement set
    i,                           \* index of the template the loop is at
    io,                          \* the file writes, removals and subprocesses of this run
    errors,                      \* templates whose copy threw in this run
    run,                         \* number of the current run
    before,                      \* the project root as this run found it
    prev                         \* how the previous run ended and what it left

vars == <<fs, env, pc, projectPackageJson, newDevDependenciesToInstall, i, io,
          errors, run, before, prev>>

NoManifest == [dependencies |-> Undefined, devDependencies |-> Undefined,
               resolutions |-> Undefined]

\* const projectDependencies = projectPackageJson.dependencies || {}
ProjectDependencies == Entries(projectPackageJson.dependencies)

\* Install SafeQL dependencies in Next.js and Postgres.js projects, not on
\* Windows.
UsesSafeql(dependencies, platform) ==
    /\ HasKey(dependencies, "next") \/ HasKey(dependencies, "postgres")
    /\ platform # "win32"

\* 'react-scripts' in projectDependencies || 'next' in projectDependencies
UsesStylelint(dependencies) ==
    HasKey(dependencies, "react-scripts") \/ HasKey(dependencies, "next")

SafeqlPackages == <<"@ts-safeql/eslint-plugin", "libpg-query">>

StylelintPackages ==
    <<"postcss-styled-syntax", "stylelint", "stylelint-config-css-modules",
      "stylelint-config-recommended", "stylelint-config-recommended-scss">>

\* names[k] = 'latest' assigned in turn.
RECURSIVE SetLatest(_, _)
SetLatest(entries, names) ==
    IF names = <<>> THEN entries
    ELSE SetLatest(Set(entries, Head(names), "latest"), Tail(names))

\* The peerDependencies of the config with the packages the project's
\* dependencies and the platform call for.
NewDevDependencies(peerDependencies, dependencies, platform) ==
    LET withSafeql == IF UsesSafeql(dependencies, platform)
                      THEN SetLatest(peerDependencies, SafeqlPackages)
                      ELSE peerDependencies
    IN  IF UsesStylelint(dependencies)
        THEN SetLatest(withSafeql, StylelintPackages)
        ELSE withSafeql

\* A merge with the precedence the wrong way round: the project's versions
\* win.
MergeKeepingProjectVersions(devDependencies, newDev) ==
    ObjectFromEntries(SortEntries(Spread(newDev, Entries(devDependencies))))

\* Object.fromEntries(Object.entries({...devDependencies, ...newDev}).sort())
MergeDevDependencies(devDependencies, newDev) ==
    ObjectFromEntries(SortEntries(Spread(Entries(devDependencies), newDev)))

\* const projectUsesYarn = !existsSync(join(process.cwd(), 'pnpm-lock.yaml'))
ProjectUsesYarn == ~env.pnpmLock

PinnedPackages ==
    <<"@typescript-eslint/eslint-plugin", "@typescript-eslint/parser",
      "eslint-plugin-import", "eslint-plugin-jest", "eslint-plugin-jsx-a11y",
      "eslint-plugin-react", "eslint-plugin-react-hooks">>

\* A builder that invents the version instead of copying it.
PinnedResolutionsLatest(devDependencies) ==
    [k \in 1..Len(PinnedPackages) |-> <<PinnedPackages[k], "latest">>]

\* [...].reduce((resolutions, packageName) => ({...resolutions,
\*   [packageName]: projectPackageJson.devDependencies[packageName]}), {})
PinnedResolutions(devDependencies) ==
    [k \in 1..Len(PinnedPackages) |->
        <<PinnedPackages[k], Get(devDependencies, PinnedPackages[k])>>]

\* { ...resolutions, ...pinned, '@typescript-eslint/utils':
\*   devDependencies['@typescript-eslint/parser'] }
Resolutions(resolutions, devDependencies) ==
    Set(Spread(Entries(resolutions), PinnedResolutions(devDependencies)),
        "@typescript-eslint/utils",
        Get(devDependencies, "@typescript-eslint/parser"))

\* `${!projectUsesYarn ? 'pnpm' : 'yarn'} install`
InstallCommand == IF ~ProjectUsesYarn THEN "pnpm install" ELSE "yarn install"

ExitCodes == {0, 1}

\* An install whose exit status is ignored.
AfterInstallIgnoringStatus(code) == "templates"

\* execSync throws when the subprocess exits non-zero, which ends the
\* script; otherwise the script goes on to the templates.
AfterInstall(code) == IF code = 0 THEN "templates" ELSE "aborted"

\* The exclusion as "neither the UI nor the database flag".
SkipStylelintUnlessDatabase(templateFileName, dependencies) ==
    /\ templateFileName = "stylelint.config.cjs"
    /\ ~(UsesStylelint(dependencies)
         \/ HasKey(dependencies, "next") \/ HasKey(dependencies, "postgres"))

\* Don't copy Stylelint config for non-React / non-Next.js projects.
SkipStylelint(templateFileName, dependencies) ==
    /\ templateFileName = "stylelint.config.cjs"
    /\ ~(HasKey(dependencies, "react-scripts") \/ HasKey(dependencies, "next"))

\* A loop without the existence check.
SkipExistingNever(files, templateFileName) == FALSE

\* if (existsSync(destinationFilePath)) continue
SkipExisting(files, templateFileName) == ExistsSync(files[templateFileName])

IgnorePaths == << <<".eslintcache">>, <<"*.tsbuildinfo">> >>

\* gitignoreContentLines.includes(ignorePath)
Includes(lines, line) == \E k \in 1..Len(lines) : lines[k] = line

\* A loop that pushes without looking.
AddIgnorePathAlways(lines, ignorePath) == Append(lines, ignorePath)

\* One turn of the loop over the required patterns.
AddIgnorePath(lines, ignorePath) ==
    IF Includes(lines, ignorePath) THEN lines ELSE Append(lines, ignorePath)

RECURSIVE AddIgnorePaths(_, _)
AddIgnorePaths(lines, ignorePaths) ==
    IF ignorePaths = <<>> THEN lines
    ELSE AddIgnorePaths(AddIgnorePath(lines, Head(ignorePaths)), Tail(ignorePaths))

\* gitignoreContentLines, [] when the file cannot be read.
ReadIgnoreLines(file) == IF ExistsSync(file) THEN Split(file.content) ELSE <<>>

\* A newline added whatever the last line is.
TrailingNewlineAlways(lines) == <<"\n">>

\* Add trailing newline if last line is not empty: at(-1) of an empty array
\* is undefined, which is not ''.
TrailingNewline(lines) ==
    IF lines # <<>> /\ lines[Len(lines)] = <<>> THEN <<>> ELSE <<"\n">>

\* The text written to .gitignore.
GitignoreText(file) ==
    LET lines == AddIgnorePaths(ReadIgnoreLines(file), IgnorePaths)
    IN  Join(lines) \o TrailingNewline(lines)

\* The default .eslintrc.json of create-next-app, without its last newline.
Boilerplate ==
    <<"{", "\n", " ", " ", "\"extends\": \"next/core-web-vitals\"", "\n", "}">>

\* readFileSync(..., 'utf-8').trim() === `{ ... }`; a file that cannot be
\* read throws, which is swallowed.
IsDefaultNextConfig(file) ==
    ExistsSync(file) /\ Trim(file.content) = Boilerplate

Event(op, arg) == [op |-> op, arg |-> arg, code |-> 0]
Exec(command, code) == [op |-> "exec", arg |-> command, code |-> code]

\* ---------------------------------------------------------------- actions

\* JSON.parse(readFileSync(projectPackageJsonPath, 'utf-8')): a missing or
\* malformed package.json throws and ends the script.
ReadManifest ==
    /\ pc = "read"
    /\ IF ExistsSync(fs.package) /\ fs.package.content.parses
       THEN /\ projectPackageJson' = fs.package.content.json
            /\ pc' = "resolve"
       ELSE /\ pc' = "aborted"
            /\ UNCHANGED projectPackageJson
    /\ UNCHANGED <<fs, env, newDevDependenciesToInstall, i, io, errors, run,
                   before, prev>>

\* The requirement set, merged into devDependencies and sorted.
ResolveDependencies ==
    /\ pc = "resolve"
    /\ newDevDependenciesToInstall' =
           NewDevDependencies(env.peerDependencies, ProjectDependencies,
                              env.platform)
    /\ projectPackageJson' =
           [projectPackageJson EXCEPT !.devDependencies =
               Object(MergeDevDependencies(projectPackageJson.devDependencies,
                                           newDevDependenciesToInstall'))]
    /\ pc' = "pin"
    /\ UNCHANGED <<fs, env, i, io, errors, run, before, prev>>

\* if (projectUsesYarn) projectPackageJson.resolutions = {...}
BuildResolutions ==
    /\ pc = "pin"
    /\ projectPackageJson' =
           IF ProjectUsesYarn
           THEN [projectPackageJson EXCEPT !.resolutions =
                   Object(Resolutions(projectPackageJson.resolutions,
                                      Entries(projectPackageJson.devDependencies)))]
           ELSE projectPackageJson
    /\ pc' = "write"
    /\ UNCHANGED <<fs, env, newDevDependenciesToInstall, i, io, errors, run,
                   before, prev>>

\* writeFileSync(projectPackageJsonPath, JSON.stringify(...) + '\n')
WriteManifest ==
    /\ pc = "write"
    /\ fs' = [fs EXCEPT !.package = File(JSONText(JSONStringify(projectPackageJson)))]
    /\ io' = Append(io, Event("write", "package.json"))
    /\ pc' = "install"
    /\ UNCHANGED <<env, projectPackageJson, newDevDependenciesToInstall, i,
                   errors, run, before, prev>>

\* execSync(`... install`): the package manager exits with some status.
Install ==
    /\ pc = "install"
    /\ \E code \in ExitCodes :
          /\ io' = Append(io, Exec(InstallCommand, code))
          /\ pc' = AfterInstall(code)
    /\ i' = 1
    /\ UNCHANGED <<fs, env, projectPackageJson, newDevDependenciesToInstall,
                   errors, run, before, prev>>

\* One turn of the loop over the templates: the Stylelint config is left
\* out of projects without React or Next.js, an existing file is kept, and
\* otherwise the template is copied; a copy that throws is logged and the
\* loop goes on (the destination is then taken not to have been created).
MaterializeTemplate ==
    /\ pc = "templates"
    /\ LET templateFileName == TemplateDir[i]
       IN  IF \/ SkipStylelint(templateFileName, ProjectDependencies)
              \/ SkipExisting(fs.files, templateFileName)
           THEN UNCHANGED <<fs, io, errors>>
           ELSE \E ok \in BOOLEAN :
                   IF ok
                   THEN /\ fs' = [fs EXCEPT !.files[templateFileName] =
                                     File(TemplateText[templateFileName])]
                        /\ io' = Append(io, Event("write", templateFileName))
                        /\ UNCHANGED errors
                   ELSE /\ errors' = errors \cup {templateFileName}
                        /\ UNCHANGED <<fs, io>>
    /\ i' = i + 1
    /\ pc' = IF i = Len(TemplateDir) THEN "gitignore" ELSE "templates"
    /\ UNCHANGED <<env, projectPackageJson, newDevDependenciesToInstall, run,
                   before, prev>>

\* Read .gitignore, push the missing patterns, write it back.
UpdateGitignore ==
    /\ pc = "gitignore"
    /\ fs' = [fs EXCEPT !.gitignore = File(GitignoreText(fs.gitignore))]
    /\ io' = Append(io, Event("write", ".gitignore"))
    /\ pc' = "prune"
    /\ UNCHANGED <<env, projectPackageJson, newDevDependenciesToInstall, i,
                   errors, run, before, prev>>

\* Remove .eslintrc.json when it is the default of create-next-app.
PruneLegacyConfig ==
    /\ pc = "prune"
    /\ IF IsDefaultNextConfig(fs.eslintrc)
       THEN /\ fs' = [fs EXCEPT !.eslintrc = Absent]
            /\ io' = Append(io, Event("rm", ".eslintrc.json"))
       ELSE UNCHANGED <<fs, io>>
    /\ pc' = "done"
    /\ UNCHANGED <<env, projectPackageJson, newDevDependenciesToInstall, i,
                   errors, run, before, prev>>

\* The script is started again on the project the last run left, with the
\* same platform, lockfile and peerDependencies.
Rerun ==
    /\ pc \in {"done", "aborted"}
    /\ run < MaxRuns
    /\ run' = run + 1
    /\ prev' = [clean |-> pc = "done" /\ errors = {}, fs |-> fs]
    /\ before' = fs
    /\ pc' = "read"
    /\ projectPackageJson' = NoManifest
    /\ newDevDependenciesToInstall' = <<>>
    /\ i' = 1
    /\ io' = <<>>
    /\ errors' = {}
    /\ UNCHANGED <<fs, env>>

Next ==
    \/ ReadManifest
    \/ ResolveDependencies
    \/ BuildResolutions
    \/ WriteManifest
    \/ Install
    \/ MaterializeTemplate
    \/ UpdateGitignore
    \/ PruneLegacyConfig
    \/ Rerun

\* ----------------------------------------------------------- start states

Frameworks == {"next", "postgres", "react-scripts"}

AllDependencies ==
    << <<"next", "^13.0.0">>, <<"postgres", "1.0.0">>, <<"react-scripts", "1.0.0">> >>

\* dependencies: not there, or any subset of the packages the script looks
\* for.
DependencyChoices ==
    {Undefined} \cup
    {Object(SelectSeq(AllDependencies, LAMBDA e : e[1] \in S)) : S \in SUBSET Frameworks}

DevEntries ==
    {<<"crazy", "1.0.0">>, <<"crazy!", "1.0.0">>,
     <<"@typescript-eslint/parser", "1.0.0">>}

UniqueKeys(entries) ==
    \A a, b \in 1..Len(entries) : entries[a][1] = entries[b][1] => a = b

\* devDependencies: not there, or up to MaxDevLen packages in any order,
\* one of them a package the config requires at another version.
DevChoices ==
    {Undefined} \cup
    {Object(e) : e \in {x \in UNION {[1..k -> DevEntries] : k \in 0..MaxDevLen} :
                           UniqueKeys(x)}}

ResolutionChoices ==
    {Undefined, Object(<<>>), Object(<< <<"lodash", "4.17.21">> >>),
     Object(<< <<"eslint-plugin-jest", "1.0.0">>,
               <<"@typescript-eslint/utils", "1.0.0">> >>)}

PeerFull ==
    << <<"@typescript-eslint/eslint-plugin", "^2.0.0">>,
       <<"@typescript-eslint/parser", "^2.0.0">>,
       <<"eslint", "^2.0.0">>,
       <<"eslint-plugin-import", "^2.0.0">>,
       <<"eslint-plugin-jest", "^2.0.0">>,
       <<"eslint-plugin-jsx-a11y", "^2.0.0">>,
       <<"eslint-plugin-react", "^2.0.0">>,
       <<"eslint-plugin-react-hooks", "^2.0.0">> >>

Without(entries, key) == SelectSeq(entries, LAMBDA e : e[1] # key)

\* The peerDependencies of the config: with every pinned package, or with
\* one of them missing.
PeerTables ==
    {PeerFull, Without(PeerFull, "@typescript-eslint/parser"),
     Without(PeerFull, "eslint-plugin-jest")}

IgnoreChunks == {"\n", ".eslintcache", "*.tsbuildinfo", "x"}

\* A pattern chunk ends its line; before it the line may hold other text.
PatternsEndLines(text) ==
    \A k \in 1..(Len(text) - 1) :
        text[k] \in {".eslintcache", "*.tsbuildinfo"} => text[k + 1] = "\n"

\* .gitignore: not there, or any such text of up to MaxIgnoreLen chunks.
IgnoreChoices ==
    {Absent} \cup
    {File(t) : t \in {x \in UNION {[1..k -> IgnoreChunks] : k \in 0..MaxIgnoreLen} :
                         PatternsEndLines(x)}}

Pads == UNION {[1..k -> {" ", "\n"}] : k \in 0..MaxPad}

EditChunks == {"x", " ", "\n"}

RemoveAt(text, j) == SubSeq(text, 1, j - 1) \o SubSeq(text, j + 1, Len(text))
InsertAt(text, j, c) == SubSeq(text, 1, j) \o <<c>> \o SubSeq(text, j + 1, Len(text))

\* The boilerplate and every text one chunk away from it.
NearBoilerplate ==
    {Boilerplate, <<>>, <<"x">>}
    \cup {RemoveAt(Boilerplate, j) : j \in 1..Len(Boilerplate)}
    \cup {[Boilerplate EXCEPT ![j] = c] : j \in 1..Len(Boilerplate), c \in EditChunks}
    \cup {InsertAt(Boilerplate, j, c) : j \in 0..Len(Boilerplate), c \in EditChunks}

\* .eslintrc.json: not there, or a text near the boilerplate between up to
\* MaxPad chunks of whitespace on each side.
EslintrcChoices ==
    {Absent} \cup
    {File(pre \o mid \o post) : pre \in Pads, mid \in NearBoilerplate, post \in Pads}

FileChoices == [TemplateNames -> {Absent, File("user text")}]

Manifests(deps, devs, resolutions) ==
    {File(JSONText(m)) :
        m \in [dependencies : deps, devDependencies : devs, resolutions : resolutions]}

NextManifest ==
    [dependencies |-> Object(<< <<"next", "^13.0.0">> >>),
     devDependencies |-> Undefined, resolutions |-> Undefined]

UsualEnv == [platform |-> "linux", pnpmLock |-> FALSE, peerDependencies |-> PeerFull]

AllTemplatesThere == [n \in TemplateNames |-> File("user text")]

IgnoreComplete == File(<<".eslintcache", "\n", "*.tsbuildinfo", "\n">>)

InitWith(packages, envs, files, ignores, eslintrcs) ==
    /\ fs \in [package : packages, files : files, gitignore : ignores,
               eslintrc : eslintrcs]
    /\ env \in envs
    /\ pc = "read"
    /\ projectPackageJson = NoManifest
    /\ newDevDependenciesToInstall = <<>>
    /\ i = 1
    /\ io = <<>>
    /\ errors = {}
    /\ run = 1
    /\ before = fs
    /\ prev = [clean |-> FALSE, fs |-> fs]

\* Any template files and any dependencies; a package.json that is missing
\* or malformed; a default .eslintrc.json.
InitTemplates ==
    InitWith({Absent, File(Unparsable)}
                 \cup Manifests(DependencyChoices, {Undefined}, {Undefined}),
             {[UsualEnv EXCEPT !.pnpmLock = b] : b \in BOOLEAN},
             FileChoices, {Absent},
             {File(Boilerplate \o <<"\n">>)})

\* Any manifest on any platform, with and without pnpm-lock.yaml.
InitManifest ==
    InitWith(Manifests(DependencyChoices, DevChoices, ResolutionChoices),
             [platform : {"linux", "win32"}, pnpmLock : BOOLEAN,
              peerDependencies : PeerTables],
             {AllTemplatesThere}, {IgnoreComplete}, {Absent})

\* Any .gitignore.
InitIgnore ==
    InitWith({File(JSONText(NextManifest))}, {UsualEnv}, {AllTemplatesThere},
             IgnoreChoices, {Absent})

\* Any .eslintrc.json near the boilerplate.
InitPrune ==
    InitWith({File(JSONText(NextManifest))}, {UsualEnv}, {AllTemplatesThere},
             {IgnoreComplete}, EslintrcChoices)

Init == InitTemplates \/ InitManifest \/ InitIgnore \/ InitPrune

Spec == Init /\ [][Next]_vars
SpecManifest == (InitManifest \/ InitTemplates) /\ [][Next]_vars
SpecIgnore == (InitIgnore \/ InitTemplates) /\ [][Next]_vars
SpecPrune == (InitPrune \/ InitTemplates) /\ [][Next]_vars
SpecTemplates == InitTemplates /\ [][Next]_vars

\* ------------------------------------------------------------- properties

\* package.json has been written in this run; it is the first effect of
\* every run that gets that far.
ManifestWritten == io # <<>>

\* The manifest this run found and the one it wrote.
StartManifest == before.package.content.json
WrittenManifest == fs.package.content.json

IgnoreUpdated == \E k \in 1..Len(io) : io[k] = Event("write", ".gitignore")

TemplatesDone == pc \in {"gitignore", "prune", "done"}

Range(s) == {s[k] : k \in 1..Len(s)}
Count(s, x) == Cardinality({k \in 1..Len(s) : s[k] = x})

\* The keys are in strictly ascending order of their code units.
AscendingKeys(entries) ==
    \A a, b \in 1..Len(entries) :
        a < b => CompareCodeUnits(CodeUnits[entries[a][1]],
                                  CodeUnits[entries[b][1]]) < 0

EndsWithNewline(text) == text # <<>> /\ text[Len(text)] = "\n"

\* The text ends with a newline that no other newline precedes.
OneTrailingNewline(text) ==
    /\ EndsWithNewline(text)
    /\ Len(text) > 1 => text[Len(text) - 1] # "\n"

\* The text is the boilerplate between two runs of whitespace.
BoilerplateInWhitespace(text) ==
    \E a \in 0..Len(text) :
        /\ a + Len(Boilerplate) <= Len(text)
        /\ SubSeq(text, a + 1, a + Len(Boilerplate)) = Boilerplate
        /\ \A k \in 1..a : text[k] \in {" ", "\n", "\t", "\r"}
        /\ \A k \in (a + Len(Boilerplate) + 1)..Len(text) :
               text[k] \in {" ", "\n", "\t", "\r"}

\* C1: a run that follows a successful run (one that reached its end with
\* no error, the logged failure of a template copy included) leaves
\* devDependencies and resolutions in package.json, the text of .gitignore
\* and every template file as that run left them, at every point of the
\* run.
C1_Idempotent ==
    prev.clean =>
        /\ ExistsSync(fs.package) /\ fs.package.content.parses
        /\ WrittenManifest.devDependencies
               = prev.fs.package.content.json.devDependencies
        /\ WrittenManifest.resolutions
               = prev.fs.package.content.json.resolutions
        /\ fs.gitignore = prev.fs.gitignore
        /\ fs.files = prev.fs.files

\* A second run has gone through all its writes after a clean first run
\* that did create files.
C1_Witness ==
    /\ prev.clean
    /\ pc = "done"
    /\ IgnoreUpdated
    /\ \E n \in TemplateNames : fs.files[n] = File(TemplateText[n])

\* C2: a template destination that exists when the run starts has the same
\* content at every later point of the run.
C2_NoClobber ==
    \A n \in TemplateNames :
        ExistsSync(before.files[n]) => fs.files[n] = before.files[n]

\* A finished run that kept one file, copied another and failed on a third.
C2_Witness ==
    /\ pc = "done"
    /\ \E n \in TemplateNames :
          ExistsSync(before.files[n]) /\ fs.files[n] = File("user text")
    /\ \E n \in TemplateNames :
          ~ExistsSync(before.files[n]) /\ fs.files[n] = File(TemplateText[n])
    /\ errors # {}

\* C3: the written devDependencies hold exactly the keys of the project's
\* devDependencies and of the requirement set; a key of the requirement set
\* has the requirement's version, any other key its original version.
C3_MergePrecedence ==
    ManifestWritten =>
        LET final == Entries(WrittenManifest.devDependencies)
            old == Entries(StartManifest.devDependencies)
            req == newDevDependenciesToInstall
        IN  /\ KeySet(final) = KeySet(old) \cup KeySet(req)
            /\ KeySet(env.peerDependencies) \subseteq KeySet(req)
            /\ \A k \in KeySet(req) : Get(final, k) = Get(req, k)
            /\ \A k \in KeySet(old) \ KeySet(req) : Get(final, k) = Get(old, k)

\* The project declared a required package at another version and a package
\* the config does not know.
C3_Witness ==
    /\ ManifestWritten
    /\ Get(Entries(StartManifest.devDependencies), "@typescript-eslint/parser") = "1.0.0"
    /\ Get(Entries(WrittenManifest.devDependencies), "@typescript-eslint/parser") = "^2.0.0"
    /\ Get(Entries(WrittenManifest.devDependencies), "crazy") = "1.0.0"
    /\ Get(Entries(WrittenManifest.devDependencies), "stylelint") = "latest"

\* C4: the keys of the written devDependencies are in strictly ascending
\* order of the key alone.
C4_SortedByKey ==
    ManifestWritten => AscendingKeys(Entries(WrittenManifest.devDependencies))

\* C5 as stated: with no pnpm-lock.yaml, every key of the written
\* resolutions is a key of the written devDependencies, or is
\* '@typescript-eslint/utils' with '@typescript-eslint/parser' there.
C5_OverrideKeysInDev ==
    (ManifestWritten /\ ProjectUsesYarn) =>
        LET res == Entries(WrittenManifest.resolutions)
            dev == Entries(WrittenManifest.devDependencies)
        IN  \A k \in KeySet(res) :
                \/ HasKey(dev, k)
                \/ k = "@typescript-eslint/utils"
                   /\ HasKey(dev, "@typescript-eslint/parser")

\* C5 amended: a written resolution for a pinned package has the version of
\* that key in devDependencies, the one for '@typescript-eslint/utils' has
\* the version of '@typescript-eslint/parser', and every other key is a
\* resolution the project had, with its value.
C5_PinnedKeysInDev ==
    (ManifestWritten /\ ProjectUsesYarn) =>
        LET res == Entries(WrittenManifest.resolutions)
            dev == Entries(WrittenManifest.devDependencies)
            old == Entries(StartManifest.resolutions)
        IN  \A k \in KeySet(res) :
                IF k \in Range(PinnedPackages)
                THEN HasKey(dev, k) /\ Get(res, k) = Get(dev, k)
                ELSE IF k = "@typescript-eslint/utils"
                THEN /\ HasKey(dev, "@typescript-eslint/parser")
                     /\ Get(res, k) = Get(dev, "@typescript-eslint/parser")
                ELSE HasKey(old, k) /\ Get(res, k) = Get(old, k)

\* The config lacks a pinned package the project had a resolution for, and
\* the project's own resolution is kept.
C5_Witness ==
    /\ ManifestWritten /\ ProjectUsesYarn
    /\ ~HasKey(Entries(WrittenManifest.devDependencies), "eslint-plugin-jest")
    /\ HasKey(Entries(StartManifest.resolutions), "eslint-plugin-jest")
    /\ ~HasKey(Entries(WrittenManifest.resolutions), "eslint-plugin-jest")
    /\ HasKey(Entries(WrittenManifest.resolutions), "eslint-plugin-react")

C5_WitnessKept ==
    /\ ManifestWritten /\ ProjectUsesYarn
    /\ Get(Entries(WrittenManifest.resolutions), "lodash") = "4.17.21"

\* What .gitignore held when the run started, as lines.
StartIgnoreLines ==
    IF ExistsSync(before.gitignore) THEN Split(before.gitignore.content) ELSE <<>>

\* How many newlines end the text.
RECURSIVE TrailingNewlines(_)
TrailingNewlines(text) ==
    IF EndsWithNewline(text)
    THEN 1 + TrailingNewlines(SubSeq(text, 1, Len(text) - 1))
    ELSE 0

\* C6 as stated: whatever .gitignore held, the text written to it ends
\* with exactly one newline.
C6_OneTrailingNewline ==
    IgnoreUpdated => OneTrailingNewline(fs.gitignore.content)

\* C6 amended: the written text ends with a newline, and with exactly one
\* unless the file already listed both patterns and ended with two or more
\* newlines; the text is then written back as it was.
C6_TrailingNewline ==
    IgnoreUpdated =>
        LET text == fs.gitignore.content
            hadBoth == \A p \in Range(IgnorePaths) : p \in Range(StartIgnoreLines)
            several == /\ ExistsSync(before.gitignore)
                       /\ TrailingNewlines(before.gitignore.content) >= 2
        IN  /\ EndsWithNewline(text)
            /\ IF hadBoth /\ several
               THEN text = before.gitignore.content
               ELSE OneTrailingNewline(text)

\* The file listed both patterns and ended with one newline, and is written
\* back unchanged.
C6_Witness ==
    /\ IgnoreUpdated
    /\ ExistsSync(before.gitignore)
    /\ TrailingNewlines(before.gitignore.content) = 1
    /\ \A p \in Range(IgnorePaths) : p \in Range(StartIgnoreLines)
    /\ "x" \in Range(before.gitignore.content)
    /\ fs.gitignore = before.gitignore

\* C7 as stated: after the update no entry (non-empty line) of .gitignore
\* occurs twice.
C7_NoDuplicateEntries ==
    IgnoreUpdated =>
        LET lines == Split(fs.gitignore.content)
        IN  \A a, b \in 1..Len(lines) :
                (lines[a] = lines[b] /\ lines[a] # <<>>) => a = b

\* C7 amended: a required pattern that was missing occurs once; every
\* other entry, a required pattern that was there included, occurs as often
\* as it did before the update.
C7_NoAddedDuplicates ==
    IgnoreUpdated =>
        LET lines == Split(fs.gitignore.content)
        IN  \A l \in (Range(lines) \cup Range(StartIgnoreLines)
                        \cup Range(IgnorePaths)) \ {<<>>} :
                Count(lines, l) =
                    IF l \in Range(IgnorePaths) /\ Count(StartIgnoreLines, l) = 0
                    THEN 1
                    ELSE Count(StartIgnoreLines, l)

\* One pattern was listed and is not repeated, the other is added, and a
\* line that only contains a pattern is no match.
C7_Witness ==
    /\ IgnoreUpdated
    /\ Count(StartIgnoreLines, <<".eslintcache">>) = 1
    /\ Count(StartIgnoreLines, <<"*.tsbuildinfo">>) = 0
    /\ Count(StartIgnoreLines, <<"x", "*.tsbuildinfo">>) = 1
    /\ Count(Split(fs.gitignore.content), <<"*.tsbuildinfo">>) = 1

\* C8 as stated: .eslintrc.json is removed when its text is the
\* boilerplate, and kept as it is when its text is anything else.
C8_ExactMatch ==
    (pc = "done" /\ ExistsSync(before.eslintrc)) =>
        IF before.eslintrc.content = Boilerplate
        THEN fs.eslintrc = Absent
        ELSE fs.eslintrc = before.eslintrc

\* C8 amended: .eslintrc.json is removed when its text is the boilerplate
\* with any whitespace before and after it, and kept as it is otherwise.
C8_TrimmedMatch ==
    pc = "done" =>
        IF ExistsSync(before.eslintrc)
           /\ BoilerplateInWhitespace(before.eslintrc.content)
        THEN /\ fs.eslintrc = Absent
             /\ io[Len(io)] = Event("rm", ".eslintrc.json")
        ELSE /\ fs.eslintrc = before.eslintrc
             /\ \A k \in 1..Len(io) : io[k].op # "rm"

\* The boilerplate followed by a newline, as create-next-app writes it, is
\* removed.
C8_Witness ==
    /\ pc = "done"
    /\ before.eslintrc = File(Boilerplate \o <<"\n">>)
    /\ fs.eslintrc = Absent

\* A text one chunk away from the boilerplate inside is kept.
C8_WitnessKept ==
    /\ pc = "done"
    /\ ExistsSync(before.eslintrc)
    /\ Len(before.eslintrc.content) = Len(Boilerplate)
    /\ before.eslintrc.content # Boilerplate
    /\ fs.eslintrc = before.eslintrc

ManifestReadable == ExistsSync(before.package) /\ before.package.content.parses

InstallFailed == Len(io) >= 2 /\ io[2].op = "exec" /\ io[2].code # 0

\* C9: package.json is written at most once in a run, as the run's first
\* effect, and the package manager is started right after it and only
\* then.  When the package manager exits non-zero the run is over: nothing
\* follows, the templates, .gitignore and .eslintrc.json are as the run
\* found them, and package.json keeps the merged manifest.  When
\* package.json cannot be read or parsed the run ends with the project as
\* it was and without any effect.
C9_FatalAbort ==
    /\ \A k \in 1..Len(io) :
          /\ (io[k] = Event("write", "package.json")) <=> (k = 1)
          /\ (io[k].op = "exec") <=> (k = 2)
    /\ pc \in {"templates", "gitignore", "prune", "done"} =>
          /\ Len(io) >= 2
          /\ io[2] = Exec(InstallCommand, 0)
    /\ ManifestWritten =>
          fs.package = File(JSONText(JSONStringify(projectPackageJson)))
    /\ InstallFailed =>
          /\ pc = "aborted"
          /\ Len(io) = 2
          /\ fs.files = before.files
          /\ fs.gitignore = before.gitignore
          /\ fs.eslintrc = before.eslintrc
    /\ ~ManifestReadable =>
          /\ pc \in {"read", "aborted"}
          /\ io = <<>>
          /\ fs = before

\* The install failed in a project that had templates to copy, a
\* .gitignore to create and a default .eslintrc.json to remove, after the
\* manifest was changed on disk.
C9_Witness ==
    /\ InstallFailed
    /\ pc = "aborted"
    /\ fs.package # before.package
    /\ \E n \in TemplateNames : ~ExistsSync(fs.files[n])
    /\ ~ExistsSync(fs.gitignore)
    /\ IsDefaultNextConfig(fs.eslintrc)

C9_WitnessUnreadable ==
    /\ ~ManifestReadable
    /\ pc = "aborted"

\* The flags of the project, from the dependencies the run found.
UIFlag ==
    \/ HasKey(Entries(StartManifest.dependencies), "react-scripts")
    \/ HasKey(Entries(StartManifest.dependencies), "next")

DatabaseFlag ==
    \/ HasKey(Entries(StartManifest.dependencies), "next")
    \/ HasKey(Entries(StartManifest.dependencies), "postgres")

\* C10 as stated, for the copies that did not throw: but for
\* 'stylelint.config.cjs' in a project with neither flag, a template whose
\* destination was not there is there after the loop.
C10_SkipNeedsNeitherFlag ==
    TemplatesDone =>
        \A n \in TemplateNames :
            (/\ ~ExistsSync(before.files[n])
             /\ n \notin errors
             /\ ~(n = "stylelint.config.cjs" /\ ~UIFlag /\ ~DatabaseFlag))
            => ExistsSync(fs.files[n])

\* C10 amended: 'stylelint.config.cjs' is skipped exactly when the UI flag
\* is not set, whatever the database flag; any other template whose
\* destination was not there has the template's text after the loop,
\* unless its copy threw, and then it is still not there.
C10_SkipNeedsNoUIFlag ==
    TemplatesDone =>
        \A n \in TemplateNames :
            ~ExistsSync(before.files[n]) =>
                IF n = "stylelint.config.cjs" /\ ~UIFlag
                THEN ~ExistsSync(fs.files[n]) /\ n \notin errors
                ELSE IF n \in errors
                THEN ~ExistsSync(fs.files[n])
                ELSE fs.files[n] = File(TemplateText[n])

\* A Postgres.js project without React or Next.js: the Stylelint config is
\* left out and another template is copied.
C10_Witness ==
    /\ TemplatesDone
    /\ DatabaseFlag /\ ~UIFlag
    /\ ~ExistsSync(before.files["stylelint.config.cjs"])
    /\ ~ExistsSync(fs.files["stylelint.config.cjs"])
    /\ fs.files[".eslintrc.cjs"] = File(TemplateText[".eslintrc.cjs"])

C10_WitnessCopied ==
    /\ TemplatesDone
    /\ UIFlag
    /\ ~ExistsSync(before.files["stylelint.config.cjs"])
    /\ fs.files["stylelint.config.cjs"] = File(TemplateText["stylelint.config.cjs"])

=============================================================================
